---------------------------- MODULE Spec2Model ----------------------------
(***************************************************************************)
(* rinputer4_5: physical game controllers are discovered by a rescanning   *)
(* watcher thread, filtered, grabbed, calibrated and remapped by one       *)
(* worker thread per device, and their events are funnelled through one    *)
(* mpsc channel into a single synthetic uinput device (src/src/main.rs).   *)
(***************************************************************************)
EXTENDS Integers, Sequences, FiniteSets, TLC

(***************************************************************************)
(* Bounds of the model.                                                    *)
(***************************************************************************)
\* rescans of the watcher loop that are explored
MaxScans == 2
\* raw events the physical devices deliver in one run of the pipeline
MaxEvents == 2
\* raw events delivered in one run of the single-device specification
MaxOneEvents == 1
\* largest batch one fetch_events() call returns
MaxBatch == 2
\* threads that exist at one time in the runs with an endless watcher
MaxThreads == 3

(***************************************************************************)
(* Program constants.                                                      *)
(***************************************************************************)
MAX_OUT_ANALOG == 32767
MIN_OUT_ANALOG == -32768
MIN_OUT_HAT == -1
MAX_OUT_HAT == 1
MIN_OUT_TRIG == 0
MAX_OUT_TRIG == 255

\* event types (evdev::EventType)
EV_SYN == 0
EV_KEY == 1
EV_ABS == 3

\* key codes (evdev::Key)
BTN_SOUTH == 304
BTN_EAST == 305
BTN_C == 306
BTN_NORTH == 307
BTN_WEST == 308
BTN_Z == 309
BTN_TL == 310
BTN_TR == 311
BTN_TL2 == 312
BTN_TR2 == 313
BTN_SELECT == 314
BTN_START == 315
BTN_MODE == 316
BTN_THUMBL == 317
BTN_THUMBR == 318
BTN_TOUCH == 330
BTN_DPAD_UP == 544
BTN_DPAD_DOWN == 545
BTN_DPAD_LEFT == 546
BTN_DPAD_RIGHT == 547

\* absolute axis codes (evdev::AbsoluteAxisType)
ABS_X == 0
ABS_Y == 1
ABS_Z == 2
ABS_RX == 3
ABS_RY == 4
ABS_RZ == 5
ABS_THROTTLE == 6
ABS_HAT0X == 16
ABS_HAT0Y == 17

\* identity of the synthetic device (InputId::new(BUS_USB, 0x045e, 0x028e, 0x2137))
SYNTH_VENDOR == 1118
SYNTH_PRODUCT == 654
SYNTH_VERSION == 8503
\* identity the rg351m quirk is bound to (0x1209, 0x3100)
RG351M_VENDOR == 4617
RG351M_PRODUCT == 12544
\* the tolerance of the calibrator
NEAR == 100
\* length of the two calibration tables
TABLE_LEN == 6

\* the name main gives the synthetic device, b"Microsoft X-Box 360 pad"
SYNTH_NAME ==
    << "M", "i", "c", "r", "o", "s", "o", "f", "t", " ", "X", "-", "B", "o",
       "x", " ", "3", "6", "0", " ", "p", "a", "d" >>
\* the prefix the filter rejects, "Microsoft X-Box 360 pad " (note the space)
STEAM_PREFIX == SYNTH_NAME \o << " " >>

(***************************************************************************)
(* i32 arithmetic.  TLC's integers are 32 bits wide and fault on overflow, *)
(* so the wrapped results are computed without leaving the i32 range.      *)
(***************************************************************************)
MaxI32 == 2147483647
MinI32 == (-MaxI32) - 1

\* a - b leaves the i32 range
SubOverflows(a, b) ==
    \/ b > 0 /\ a < MinI32 + b
    \/ b < 0 /\ a > MaxI32 + b

\* a - b modulo 2^32 (i32::wrapping_sub)
WrapSub(a, b) ==
    IF b > 0 /\ a < MinI32 + b
    THEN ((a - MinI32) + (MaxI32 - b)) + 1
    ELSE IF b < 0 /\ a > MaxI32 + b
         THEN ((a - MaxI32) + (MinI32 - b)) - 1
         ELSE a - b

\* -a modulo 2^32
WrapNeg(a) == IF a = MinI32 THEN MinI32 ELSE -a

\* a + b modulo 2^32
WrapAdd(a, b) == WrapSub(a, WrapNeg(b))

\* i32::abs in a build without overflow checks: abs(i32::MIN) = i32::MIN
WrapAbs(a) == IF a = MinI32 THEN MinI32 ELSE IF a < 0 THEN -a ELSE a

\* magnitude of a, for a # MinI32
Mag(a) == IF a < 0 THEN -a ELSE a

\* Rust's `/` on i32: the quotient truncated toward zero, for b # 0 and
\* a # MinI32 (the dividend is always one of the four output bounds)
TruncDiv(a, b) ==
    IF b = MinI32 THEN 0
    ELSE IF (a < 0) = (b < 0) THEN Mag(a) \div Mag(b)
         ELSE -(Mag(a) \div Mag(b))

\* a * b leaves the i32 range, for b # MinI32
MulOverflows(a, b) ==
    IF a = 0 \/ b = 0 THEN FALSE
    ELSE IF a = MinI32 THEN b # 1
    ELSE LET q == MaxI32 \div Mag(b)
             r == MaxI32 % Mag(b)
         IN  IF (a < 0) = (b < 0) THEN Mag(a) > q
             ELSE IF r = Mag(b) - 1 THEN Mag(a) - 1 > q ELSE Mag(a) > q

\* a * n modulo 2^32 for n >= 0, by doubling
RECURSIVE WrapMulNat(_, _)
WrapMulNat(a, n) ==
    IF n = 0 THEN 0
    ELSE LET h == WrapMulNat(a, n \div 2)
             d == WrapAdd(h, h)
         IN  IF n % 2 = 1 THEN WrapAdd(d, a) ELSE d

\* a * b modulo 2^32 (i32::wrapping_mul), for b # MinI32
WrapMul(a, b) ==
    IF b < 0 THEN WrapNeg(WrapMulNat(a, -b)) ELSE WrapMulNat(a, b)

(***************************************************************************)
(* A computation that panics yields a fault; whether an arithmetic         *)
(* overflow panics or wraps is a property of the build (overflow checks on *)
(* or off).                                                                *)
(***************************************************************************)
Value(v) == [fault |-> "none", val |-> v]
Fault(f) == [fault |-> f, val |-> 0]

\* a * b as the build computes it
checked_mul(a, b, checks) ==
    IF MulOverflows(a, b)
    THEN IF checks THEN Fault("overflow") ELSE Value(WrapMul(a, b))
    ELSE Value(a * b)

(***************************************************************************)
(* Events and devices.                                                     *)
(***************************************************************************)
\* InputEvent::new(type, code, value)
InputEvent(t, c, v) == [type |-> t, code |-> c, value |-> v]

\* str::starts_with
starts_with(s, p) == Len(s) >= Len(p) /\ SubSeq(s, 1, Len(p)) = p

\* Option<&str>::unwrap_or
unwrap_or(name, default) == IF name.some THEN name.text ELSE default

\* has_key(dev, key)
has_key(dev, key) == key \in dev.keys

(***************************************************************************)
(* The remap quirks.                                                       *)
(***************************************************************************)
\* a synthesizer that scales the pressed value by the key value
pressed_scaled(ev, off, on) == IF ev.value = 0 THEN off ELSE on * ev.value

\* the pressed value of a D-pad button or trigger button
pressed(ev, off, on) == IF ev.value = 0 THEN off ELSE on

\* generic_dac: D-pad buttons to hat axes, TL2/TR2 to trigger axes
generic_dac(ev) ==
    IF ev.type # EV_KEY THEN ev
    ELSE CASE ev.code = BTN_DPAD_UP ->
                InputEvent(EV_ABS, ABS_HAT0Y, pressed(ev, 0, -1))
           [] ev.code = BTN_DPAD_DOWN ->
                InputEvent(EV_ABS, ABS_HAT0Y, pressed(ev, 0, 1))
           [] ev.code = BTN_DPAD_LEFT ->
                InputEvent(EV_ABS, ABS_HAT0X, pressed(ev, 0, -1))
           [] ev.code = BTN_DPAD_RIGHT ->
                InputEvent(EV_ABS, ABS_HAT0X, pressed(ev, 0, 1))
           [] ev.code = BTN_TL2 ->
                InputEvent(EV_ABS, ABS_Z, pressed(ev, MIN_OUT_TRIG, MAX_OUT_TRIG))
           [] ev.code = BTN_TR2 ->
                InputEvent(EV_ABS, ABS_RZ, pressed(ev, MIN_OUT_TRIG, MAX_OUT_TRIG))
           [] OTHER -> ev

\* what a remap leaves in `ev`, or the fault it panics with
Remapped(ev) == [fault |-> "none", ev |-> ev]
RemapFault(f) == [fault |-> f, ev |-> InputEvent(EV_SYN, 0, 0)]

\* a trigger row of rg351m: ev.value() * MAX_OUT_TRIG on the axis `code`
trigger_row(code, value, checks) ==
    LET p == checked_mul(value, MAX_OUT_TRIG, checks) IN
    IF p.fault # "none" THEN RemapFault(p.fault)
    ELSE Remapped(InputEvent(EV_ABS, code, p.val))

\* rg351m: the button table of the one known-broken device.  The product of
\* the two trigger rows is an i32 product: for a key value beyond
\* i32::MAX / 255 it panics or wraps, as the build has it.
rg351m(ev, checks) ==
    IF ev.type # EV_KEY THEN Remapped(ev)
    ELSE CASE ev.code = BTN_EAST -> Remapped(InputEvent(EV_KEY, BTN_SOUTH, ev.value))
           [] ev.code = BTN_SOUTH -> Remapped(InputEvent(EV_KEY, BTN_EAST, ev.value))
           [] ev.code = BTN_NORTH -> Remapped(InputEvent(EV_KEY, BTN_WEST, ev.value))
           [] ev.code = BTN_C -> Remapped(InputEvent(EV_KEY, BTN_NORTH, ev.value))
           [] ev.code = BTN_TL2 -> Remapped(InputEvent(EV_KEY, BTN_THUMBL, ev.value))
           [] ev.code = BTN_TR2 -> Remapped(InputEvent(EV_KEY, BTN_THUMBR, ev.value))
           [] ev.code = BTN_WEST -> Remapped(InputEvent(EV_KEY, BTN_TL, ev.value))
           [] ev.code = BTN_Z -> Remapped(InputEvent(EV_KEY, BTN_TR, ev.value))
           [] ev.code = BTN_SELECT -> trigger_row(ABS_Z, ev.value, checks)
           [] ev.code = BTN_START -> trigger_row(ABS_RZ, ev.value, checks)
           [] ev.code = BTN_TR -> Remapped(InputEvent(EV_KEY, BTN_SELECT, ev.value))
           [] ev.code = BTN_TL -> Remapped(InputEvent(EV_KEY, BTN_START, ev.value))
           [] OTHER -> Remapped(ev)

\* the three remap variants a worker can be bound to; None is "none"
apply_remap(fn, ev, checks) ==
    CASE fn = "rg351m" -> rg351m(ev, checks)
      [] fn = "generic_dac" -> Remapped(generic_dac(ev))
      [] OTHER -> Remapped(ev)

\* a resolver that tries the D-pad rule first
get_remap_fn_dpad_first(dev) ==
    IF has_key(dev, BTN_DPAD_LEFT) THEN "generic_dac"
    ELSE IF dev.vendor = RG351M_VENDOR /\ dev.product = RG351M_PRODUCT
         THEN "rg351m" ELSE "none"

\* get_remap_fn: the first matching rule decides
get_remap_fn(dev) ==
    IF dev.vendor = RG351M_VENDOR /\ dev.product = RG351M_PRODUCT
    THEN "rg351m"
    ELSE IF has_key(dev, BTN_DPAD_LEFT) THEN "generic_dac" ELSE "none"

(***************************************************************************)
(* The suitability filter: the `useful` flag of input_handler, each rule   *)
(* overriding the ones before it.                                          *)
(***************************************************************************)
useful_gamepad(dev) == has_key(dev, BTN_SOUTH)

\* a filter without the touchscreen rule
useful_touchscreen_off(dev, useful) == useful

useful_touchscreen(dev, useful) ==
    IF has_key(dev, BTN_TOUCH) THEN FALSE ELSE useful

\* a filter without the version rule
useful_rinputer_off(dev, useful) == useful

useful_rinputer(dev, useful) ==
    IF dev.version = SYNTH_VERSION THEN FALSE ELSE useful

useful_steam(dev, useful) ==
    IF starts_with(unwrap_or(dev.name, STEAM_PREFIX), STEAM_PREFIX)
    THEN FALSE ELSE useful

\* a filter that accepts every device
is_useful_always(dev) == TRUE

is_useful(dev) ==
    useful_steam(dev,
        useful_rinputer(dev,
            useful_touchscreen(dev, useful_gamepad(dev))))

(***************************************************************************)
(* The calibrator.                                                         *)
(***************************************************************************)
\* a calibrator whose trigger slots are the last two
is_trigger_slot_tail(i) == i >= 4

\* the axis slots whose target is the trigger range
is_trigger_slot(i) == i = ABS_Z \/ i = ABS_RZ

cmp_against_min(i) == IF is_trigger_slot(i) THEN MIN_OUT_TRIG ELSE MIN_OUT_ANALOG

cmp_against_max(i) == IF is_trigger_slot(i) THEN MAX_OUT_TRIG ELSE MAX_OUT_ANALOG

\* a calibrator with a tolerance of 10
is_near_tight(dist) == dist < 10

\* the bound counts as already calibrated
is_near(dist) == dist < NEAR

\* if (v - cmp_against).abs() < 100 { 1 } else { cmp_against / v }
multiplier(cmp_against, v, checks) ==
    IF SubOverflows(v, cmp_against) /\ checks THEN Fault("overflow")
    ELSE LET diff == WrapSub(v, cmp_against) IN
         IF diff = MinI32 /\ checks THEN Fault("overflow")
         ELSE IF is_near(WrapAbs(diff)) THEN Value(1)
              ELSE IF v = 0 THEN Fault("div0")
                   ELSE Value(TruncDiv(cmp_against, v))

\* the raw bounds read from get_abs_state, all zero when the query fails
abs_minimums(dev) ==
    [i \in 1..TABLE_LEN |-> IF dev.absok THEN dev.absmin[i] ELSE 0]

abs_maximums(dev) ==
    [i \in 1..TABLE_LEN |-> IF dev.absok THEN dev.absmax[i] ELSE 0]

\* the two tables, slot i of the code at index i + 1
abs_multipliers_min(dev, checks) ==
    [i \in 1..TABLE_LEN |->
        multiplier(cmp_against_min(i - 1), abs_minimums(dev)[i], checks)]

abs_multipliers_max(dev, checks) ==
    [i \in 1..TABLE_LEN |->
        multiplier(cmp_against_max(i - 1), abs_maximums(dev)[i], checks)]

\* the first fault met while the tables are collected, "none" if there is none
RECURSIVE first_fault(_, _)
first_fault(tbl, i) ==
    IF i > Len(tbl) THEN "none"
    ELSE IF tbl[i].fault # "none" THEN tbl[i].fault
         ELSE first_fault(tbl, i + 1)

calibration_fault(dev, checks) ==
    first_fault(abs_multipliers_min(dev, checks) \o abs_multipliers_max(dev, checks), 1)

\* the values of a table that was collected without fault
table_values(tbl) == [i \in 1..Len(tbl) |-> tbl[i].val]

(***************************************************************************)
(* The streaming loop's treatment of one raw event.                        *)
(***************************************************************************)
\* the multiplier an analog sample is scaled by: the minimum side for a
\* negative sample, the maximum side otherwise
side_table(value, mmin, mmax) == IF value < 0 THEN mmin ELSE mmax

\* a loop that scales the hat axes like any other axis
scale_no_hat(ev, mmin, mmax, checks) ==
    IF ev.code >= TABLE_LEN THEN Fault("index")
    ELSE checked_mul(ev.value, side_table(ev.value, mmin, mmax)[ev.code + 1], checks)

\* the value forwarded for an analog event
scale(ev, mmin, mmax, checks) ==
    IF ev.code = ABS_HAT0Y \/ ev.code = ABS_HAT0X THEN Value(ev.value)
    ELSE IF ev.code >= TABLE_LEN THEN Fault("index")
         ELSE checked_mul(ev.value, side_table(ev.value, mmin, mmax)[ev.code + 1], checks)

\* what the loop body sends for one raw event: a sequence of at most one
\* event, or a fault
handle(ev, mmin, mmax, fn, checks) ==
    CASE ev.type = EV_ABS ->
            LET val == scale(ev, mmin, mmax, checks) IN
            IF val.fault # "none" THEN [fault |-> val.fault, out |-> << >>]
            ELSE [fault |-> "none",
                  out |-> << InputEvent(ev.type, ev.code, val.val) >>]
      [] ev.type = EV_KEY ->
            LET r == apply_remap(fn, ev, checks) IN
            IF r.fault # "none" THEN [fault |-> r.fault, out |-> << >>]
            ELSE [fault |-> "none", out |-> << r.ev >>]
      [] OTHER -> [fault |-> "none", out |-> << >>]

(***************************************************************************)
(* The devices the runs are explored with.  A device is what the input     *)
(* subsystem reports for it: identity, name, supported keys, the absinfo   *)
(* of axis codes 0..5 (slot i at index i + 1; an axis the device lacks     *)
(* reports 0/0), the axes it has, and `raw`, the raw events it delivers in *)
(* this run.                                                               *)
(***************************************************************************)
Name(text) == [some |-> TRUE, text |-> text]
NoName == [some |-> FALSE, text |-> << >>]

\* the values a key event carries: released, pressed, autorepeat, and, as
\* the input subsystem hands on whatever value a driver or a uinput client
\* reports and the program does not test it, the largest value whose
\* product with 255 fits an i32 and the value after it
KeyValues == {0, 1, 2, MaxI32 \div MAX_OUT_TRIG, (MaxI32 \div MAX_OUT_TRIG) + 1}

\* samples of an axis that reports [lo, hi]
Samples(lo, hi) == {v \in {lo, hi, 0} : lo <= v /\ v <= hi}

\* the raw events that are legal for a device with these capabilities
LegalRaw(keys, axes, absmin, absmax) ==
    {InputEvent(EV_KEY, k, v) : k \in keys, v \in KeyValues}
    \cup UNION {{InputEvent(EV_ABS, a, v) : v \in Samples(absmin[a + 1], absmax[a + 1])} :
                    a \in axes \cap 0..(TABLE_LEN - 1)}
    \cup UNION {{InputEvent(EV_ABS, a, v) : v \in MIN_OUT_HAT..MAX_OUT_HAT} :
                    a \in axes \cap {ABS_HAT0X, ABS_HAT0Y}}
    \cup {InputEvent(EV_ABS, a, 1) : a \in axes \cap {ABS_THROTTLE}}
    \cup {InputEvent(EV_SYN, 0, 0)}

Caps(keys, vendor, product, version, name) ==
    [keys |-> keys, vendor |-> vendor, product |-> product,
     version |-> version, name |-> name]

Ranges(absok, absmin, absmax, axes) ==
    [absok |-> absok, absmin |-> absmin, absmax |-> absmax, axes |-> axes]

Device(c, r, raw) ==
    [keys |-> c.keys, vendor |-> c.vendor, product |-> c.product,
     version |-> c.version, name |-> c.name,
     absok |-> r.absok, absmin |-> r.absmin, absmax |-> r.absmax,
     axes |-> r.axes, raw |-> raw]

FullDevice(c, r) == Device(c, r, LegalRaw(c.keys, r.axes, r.absmin, r.absmax))

\* the device main builds: 11 buttons, version tag 0x2137, the canonical
\* ranges; what it delivers is what the consumer injects into it
SynthDevice ==
    Device(Caps({BTN_SOUTH, BTN_EAST, BTN_NORTH, BTN_WEST, BTN_TL, BTN_TR,
                 BTN_SELECT, BTN_START, BTN_MODE, BTN_THUMBL, BTN_THUMBR},
                SYNTH_VENDOR, SYNTH_PRODUCT, SYNTH_VERSION, Name(SYNTH_NAME)),
           Ranges(TRUE,
                  << MIN_OUT_ANALOG, MIN_OUT_ANALOG, MIN_OUT_TRIG,
                     MIN_OUT_ANALOG, MIN_OUT_ANALOG, MIN_OUT_TRIG >>,
                  << MAX_OUT_ANALOG, MAX_OUT_ANALOG, MAX_OUT_TRIG,
                     MAX_OUT_ANALOG, MAX_OUT_ANALOG, MAX_OUT_TRIG >>,
                  {ABS_X, ABS_Y, ABS_Z, ABS_RX, ABS_RY, ABS_RZ, ABS_HAT0X, ABS_HAT0Y}),
           {})

GamepadAxes == {ABS_X, ABS_Y, ABS_Z, ABS_RX, ABS_RY, ABS_RZ, ABS_HAT0X, ABS_HAT0Y}

\* ranges with the same bounds on the four stick axes and on the two triggers
StickTrig(slo, shi, tlo, thi, axes) ==
    Ranges(TRUE, << slo, slo, tlo, slo, slo, tlo >>,
                 << shi, shi, thi, shi, shi, thi >>, axes)

RangeCanonical == StickTrig(-32768, 32767, 0, 255, GamepadAxes)
RangeScenario1 == StickTrig(0, 1023, 0, 255, GamepadAxes)
RangeTenBit == StickTrig(-512, 511, 0, 1023, GamepadAxes)
RangeNear == StickTrig(-32800, 32800, -50, 300, GamepadAxes)
RangeWide == StickTrig(-65536, 65535, 0, 255, GamepadAxes)
RangeSmall == StickTrig(-127, 127, 0, 100, GamepadAxes)
RangeExtreme == StickTrig(-32768, 32767, MinI32, 255, GamepadAxes)
RangeThrottle == StickTrig(-32768, 32767, 0, 255, GamepadAxes \cup {ABS_THROTTLE})
RangeNoAxes == StickTrig(0, 0, 0, 0, {})
RangeQueryFails ==
    Ranges(FALSE, << -32768, -32768, 0, -32768, -32768, 0 >>,
                  << 32767, 32767, 255, 32767, 32767, 255 >>, GamepadAxes)

RangeProfiles ==
    {RangeCanonical, RangeScenario1, RangeTenBit, RangeNear, RangeWide,
     RangeSmall, RangeExtreme, RangeThrottle, RangeNoAxes, RangeQueryFails}

GenericName == << "P", "a", "d" >>

CapsPlain == Caps({BTN_SOUTH, BTN_EAST, BTN_MODE}, 1356, 616, 273, Name(GenericName))
CapsDpad ==
    Caps({BTN_SOUTH, BTN_DPAD_UP, BTN_DPAD_DOWN, BTN_DPAD_LEFT, BTN_DPAD_RIGHT,
          BTN_TL2, BTN_TR2}, 121, 6, 272, Name(GenericName))
Rg351mKeys ==
    {BTN_EAST, BTN_SOUTH, BTN_NORTH, BTN_C, BTN_TL2, BTN_TR2, BTN_WEST, BTN_Z,
     BTN_SELECT, BTN_START, BTN_TR, BTN_TL}
CapsRg351m ==
    Caps(Rg351mKeys \cup {BTN_DPAD_LEFT, BTN_MODE},
         RG351M_VENDOR, RG351M_PRODUCT, 273, Name(GenericName))
CapsTouch == Caps({BTN_SOUTH, BTN_TOUCH}, 1267, 12, 1, Name(GenericName))
\* a keyboard: KEY_A (30) and no gamepad button
CapsKeyboard == Caps({30}, 1, 1, 43841, Name(GenericName))
CapsSteam ==
    Caps({BTN_SOUTH, BTN_EAST}, SYNTH_VENDOR, SYNTH_PRODUCT, 272,
         Name(STEAM_PREFIX \o << "0" >>))
CapsXbox360 ==
    Caps({BTN_SOUTH, BTN_EAST}, SYNTH_VENDOR, SYNTH_PRODUCT, 276, Name(SYNTH_NAME))
CapsNameless == Caps({BTN_SOUTH, BTN_EAST}, 1356, 616, 273, NoName)
\* a pad whose only directional buttons are up and down
CapsUpDown ==
    Caps({BTN_SOUTH, BTN_DPAD_UP, BTN_DPAD_DOWN}, 121, 17, 272, Name(GenericName))

CapsProfiles ==
    {CapsPlain, CapsDpad, CapsRg351m, CapsTouch, CapsKeyboard, CapsSteam,
     CapsXbox360, CapsNameless, CapsUpDown}

\* the devices of the single-device runs
OneDevices ==
    {FullDevice(c, RangeCanonical) : c \in CapsProfiles}
    \cup {FullDevice(CapsPlain, r) : r \in RangeProfiles}
    \cup {FullDevice(CapsRg351m, RangeScenario1), FullDevice(CapsDpad, RangeTenBit),
          FullDevice(CapsTouch, RangeNoAxes), FullDevice(CapsKeyboard, RangeNoAxes)}

\* the devices of the pipeline runs: canonical ranges, a few raw events each
PadA ==
    Device(CapsPlain, RangeCanonical,
           {InputEvent(EV_KEY, BTN_SOUTH, 1), InputEvent(EV_ABS, ABS_X, -32768),
            InputEvent(EV_SYN, 0, 0)})
PadB ==
    Device(CapsDpad, RangeCanonical,
           {InputEvent(EV_KEY, BTN_DPAD_LEFT, 1), InputEvent(EV_KEY, BTN_SOUTH, 0)})
Touchscreen == Device(CapsTouch, RangeNoAxes, {InputEvent(EV_KEY, BTN_TOUCH, 1)})

(***************************************************************************)
(* State.                                                                  *)
(***************************************************************************)
VARIABLES
    checks,     \* the build panics on arithmetic overflow (else it wraps)
    dev,        \* the devices enumerate() returns, by id
    workers,    \* the input_handler threads spawned so far
    holder,     \* per device, the worker holding its grab (0: nobody)
    reads,      \* per device, the number of raw events read from it
    left,       \* raw events the devices still deliver in this run
    chan,       \* the mpsc channel, oldest message first
    sent,       \* the tags of the messages in the order they were sent
    injected,   \* the tags of the messages in the order they were emitted
    emitted,    \* the message of the last uhandle.emit call
    scans,      \* enumerations the watcher still does in this run
    mainpc      \* "running", or "failed" once emit returned an error

vars ==
    << checks, dev, workers, holder, reads, left, chan, sent, injected,
       emitted, scans, mainpc >>

DeviceOrder == << "pad1", "pad2", "synth" >>

Devices == DOMAIN dev

NoMessage == [some |-> FALSE]

\* a message: the event, and where it came from (its device, the index of
\* the raw event among those read from the device, the worker, the raw event)
Message(ev, tag, raw) == [some |-> TRUE, ev |-> ev, tag |-> tag, raw |-> raw]

Tag(d, n, w) == [dev |-> d, n |-> n, by |-> w]

\* a thread that has just been spawned for device d
NewWorker(d) ==
    [dev |-> d, pc |-> "Discovered", mmin |-> << >>, mmax |-> << >>,
     fn |-> "none", batch |-> << >>, fault |-> "none"]

InitCommon ==
    /\ checks \in BOOLEAN
    /\ holder = [d \in DOMAIN dev |-> 0]
    /\ reads = [d \in DOMAIN dev |-> 0]
    /\ chan = << >>
    /\ sent = << >>
    /\ injected = << >>
    /\ emitted = NoMessage
    /\ mainpc = "running"

\* the pipeline: two physical devices and the synthetic one
Init ==
    /\ \E a \in {PadA, Touchscreen} :
            dev = [d \in {"pad1", "pad2", "synth"} |->
                      CASE d = "pad1" -> a [] d = "pad2" -> PadB [] OTHER -> SynthDevice]
    /\ left = MaxEvents
    /\ scans = MaxScans
    /\ workers = << >>
    /\ InitCommon

\* one physical device of any profile and the synthetic one, when the
\* watcher has spawned the threads of its first enumeration
InitOne ==
    /\ \E a \in OneDevices :
            dev = [d \in {"pad1", "synth"} |-> IF d = "pad1" THEN a ELSE SynthDevice]
    /\ left = MaxOneEvents
    /\ scans = 0
    /\ workers = << NewWorker("pad1"), NewWorker("synth") >>
    /\ InitCommon

(***************************************************************************)
(* The watcher thread.                                                     *)
(***************************************************************************)
\* evdev::enumerate()
enumerate == SelectSeq(DeviceOrder, LAMBDA d : d \in Devices)

\* indev_watcher: one iteration, a thread per enumerated device
Rescan ==
    /\ mainpc = "running"
    /\ scans > 0
    /\ scans' = scans - 1
    /\ workers' = workers \o [i \in 1..Len(enumerate) |-> NewWorker(enumerate[i])]
    /\ UNCHANGED << checks, dev, holder, reads, left, chan, sent, injected,
                    emitted, mainpc >>

(***************************************************************************)
(* input_handler, one action per step of a worker thread.                  *)
(***************************************************************************)
\* threads that stop running once any thread has ended on a read failure
Live_alone(w) ==
    /\ mainpc = "running"
    /\ w \in 1..Len(workers)
    /\ \A v \in 1..Len(workers) : workers[v].pc # "Terminated"

Live(w) == mainpc = "running" /\ w \in 1..Len(workers)

\* a thread whose end leaves its grab in place
Release_kept(w) == holder

\* the worker's thread ends: its Device is dropped, which closes the file
\* descriptor and with it the grab the worker held
Release(w) == [d \in Devices |-> IF holder[d] = w THEN 0 ELSE holder[d]]

\* Discovered -> Evaluated: the suitability filter
Evaluate(w) ==
    /\ Live(w)
    /\ workers[w].pc = "Discovered"
    /\ workers' = [workers EXCEPT ![w].pc =
                      IF is_useful(dev[workers[w].dev]) THEN "Acquiring" ELSE "Rejected"]
    /\ UNCHANGED << checks, dev, holder, reads, left, chan, sent, injected,
                    emitted, scans, mainpc >>

\* the kernel grants a grab when no other open file holds one
grab_ok(d) == holder[d] = 0

\* Ok(()) => go on, Err(_) => return Ok(())
after_grab(ok) == IF ok THEN "Calibrating" ELSE "AcquisitionFailed"

\* Acquiring: dev.grab()
Grab(w) ==
    /\ Live(w)
    /\ workers[w].pc = "Acquiring"
    /\ workers' = [workers EXCEPT ![w].pc = after_grab(grab_ok(workers[w].dev))]
    /\ holder' = IF grab_ok(workers[w].dev)
                 THEN [holder EXCEPT ![workers[w].dev] = w]
                 ELSE holder
    /\ UNCHANGED << checks, dev, reads, left, chan, sent, injected, emitted,
                    scans, mainpc >>

\* Calibrating: the two multiplier tables and the quirk; a panic ends the thread
Calibrate(w) ==
    /\ Live(w)
    /\ workers[w].pc = "Calibrating"
    /\ LET d == dev[workers[w].dev]
           f == calibration_fault(d, checks)
       IN  IF f # "none"
           THEN /\ workers' = [workers EXCEPT ![w].pc = "Panicked", ![w].fault = f]
                /\ holder' = Release(w)
           ELSE /\ workers' = [workers EXCEPT
                      ![w].pc = "Streaming",
                      ![w].mmin = table_values(abs_multipliers_min(d, checks)),
                      ![w].mmax = table_values(abs_multipliers_max(d, checks)),
                      ![w].fn = get_remap_fn(d)]
                /\ UNCHANGED holder
    /\ UNCHANGED << checks, dev, reads, left, chan, sent, injected, emitted,
                    scans, mainpc >>

\* what a read of device d can return: for a physical device the events it
\* delivers, for the synthetic device the event last injected into it
Readable(d) ==
    IF d = "synth"
    THEN IF emitted.some THEN {emitted.ev} ELSE {}
    ELSE dev[d].raw

\* Streaming: dev.fetch_events() returns a batch
Fetch(w) ==
    /\ Live(w)
    /\ workers[w].pc = "Streaming"
    /\ workers[w].batch = << >>
    /\ \E k \in 1..MaxBatch :
         /\ k <= left
         /\ \E b \in [1..k -> Readable(workers[w].dev)] :
              LET d == workers[w].dev IN
              /\ workers' = [workers EXCEPT ![w].batch =
                    [i \in 1..k |-> [raw |-> b[i], tag |-> Tag(d, reads[d] + i, w)]]]
              /\ reads' = [reads EXCEPT ![d] = reads[d] + k]
              /\ left' = left - k
    /\ UNCHANGED << checks, dev, holder, chan, sent, injected, emitted, scans, mainpc >>

\* Streaming: dev.fetch_events() fails (device unplugged, I/O error)
ReadFail(w) ==
    /\ Live(w)
    /\ workers[w].pc = "Streaming"
    /\ workers[w].batch = << >>
    /\ workers' = [workers EXCEPT ![w].pc = "Terminated"]
    /\ holder' = Release(w)
    /\ UNCHANGED << checks, dev, reads, left, chan, sent, injected, emitted,
                    scans, mainpc >>

\* the order in which the loop takes the events of a batch
next_of(batch) == Head(batch)
rest_of(batch) == Tail(batch)

\* Streaming: the body of the for loop on the next event of the batch
Forward(w) ==
    /\ Live(w)
    /\ workers[w].pc = "Streaming"
    /\ workers[w].batch # << >>
    /\ LET item == next_of(workers[w].batch)
           r == handle(item.raw, workers[w].mmin, workers[w].mmax,
                       workers[w].fn, checks)
       IN  IF r.fault # "none"
           THEN /\ workers' = [workers EXCEPT ![w].pc = "Panicked",
                                  ![w].fault = r.fault, ![w].batch = << >>]
                /\ holder' = Release(w)
                /\ UNCHANGED << chan, sent >>
           ELSE /\ workers' = [workers EXCEPT ![w].batch = rest_of(workers[w].batch)]
                /\ chan' = chan \o [i \in 1..Len(r.out) |->
                                       Message(r.out[i], item.tag, item.raw)]
                /\ sent' = sent \o [i \in 1..Len(r.out) |-> item.tag]
                /\ UNCHANGED holder
    /\ UNCHANGED << checks, dev, reads, left, injected, emitted, scans, mainpc >>

(***************************************************************************)
(* main: the consumer.                                                     *)
(***************************************************************************)
\* a consumer that takes the newest message first
recv_newest(c) == [msg |-> c[Len(c)], rest |-> SubSeq(c, 1, Len(c) - 1)]

\* `for ev in rx`: the oldest message, and what stays in the channel
recv(c) == [msg |-> Head(c), rest |-> Tail(c)]

\* uhandle.emit(&[ev]) succeeds
Emit ==
    /\ mainpc = "running"
    /\ chan # << >>
    /\ emitted' = recv(chan).msg
    /\ injected' = Append(injected, recv(chan).msg.tag)
    /\ chan' = recv(chan).rest
    /\ UNCHANGED << checks, dev, workers, holder, reads, left, sent, scans, mainpc >>

\* uhandle.emit(&[ev]) fails: main returns the error and the process ends
EmitFail ==
    /\ mainpc = "running"
    /\ chan # << >>
    /\ mainpc' = "failed"
    /\ chan' = recv(chan).rest
    /\ UNCHANGED << checks, dev, workers, holder, reads, left, sent, injected,
                    emitted, scans >>

Next ==
    \/ Rescan
    \/ \E w \in 1..Len(workers) : Evaluate(w)
    \/ \E w \in 1..Len(workers) : Grab(w)
    \/ \E w \in 1..Len(workers) : Calibrate(w)
    \/ \E w \in 1..Len(workers) : Fetch(w)
    \/ \E w \in 1..Len(workers) : ReadFail(w)
    \/ \E w \in 1..Len(workers) : Forward(w)
    \/ Emit
    \/ EmitFail

Spec == Init /\ [][Next]_vars

(***************************************************************************)
(* The race for one gamepad: the watcher's rescans spawn several threads   *)
(* for it.  The gamepad has the canonical ranges, or sticks that report    *)
(* [0, 1023] and so a minimum of 0.                                        *)
(***************************************************************************)
PadZ == Device(CapsPlain, RangeScenario1, {InputEvent(EV_ABS, ABS_X, 1023)})

InitRace ==
    /\ \E a \in {PadA, PadZ} :
            dev = [d \in {"pad1", "synth"} |-> IF d = "pad1" THEN a ELSE SynthDevice]
    /\ left = MaxEvents
    /\ scans = MaxScans
    /\ workers = << >>
    /\ InitCommon

SpecRace == InitRace /\ [][Next]_vars

(***************************************************************************)
(* The filter on its own: a device of any south/touch/version/name         *)
(* combination, and the threads of one enumeration up to their verdict.    *)
(***************************************************************************)
FilterVersions == {SYNTH_VERSION, SYNTH_VERSION + 1, 272}

FilterNames ==
    {NoName, Name(<< >>), Name(GenericName), Name(SYNTH_NAME), Name(STEAM_PREFIX),
     Name(STEAM_PREFIX \o << "0" >>), Name(SubSeq(SYNTH_NAME, 1, Len(SYNTH_NAME) - 1)),
     Name(<< " " >> \o STEAM_PREFIX)}

FilterDevices ==
    {FullDevice(Caps(south \cup touch \cup {BTN_EAST}, 1356, 616, v, n), RangeCanonical) :
        south \in {{}, {BTN_SOUTH}}, touch \in {{}, {BTN_TOUCH}},
        v \in FilterVersions, n \in FilterNames}

InitFilter ==
    /\ \E a \in FilterDevices :
            dev = [d \in {"pad1", "synth"} |-> IF d = "pad1" THEN a ELSE SynthDevice]
    /\ left = 0
    /\ scans = 0
    /\ workers = << NewWorker("pad1"), NewWorker("synth") >>
    /\ InitCommon

NextFilter == \E w \in 1..Len(workers) : Evaluate(w)

SpecFilter == InitFilter /\ [][NextFilter]_vars

(***************************************************************************)
(* The calibrator on its own: a gamepad with the canonical ranges except   *)
(* for one bound of one axis slot, and the threads of one enumeration up   *)
(* to the end of calibration.                                              *)
(***************************************************************************)
Targets == {MIN_OUT_ANALOG, MAX_OUT_ANALOG, MIN_OUT_TRIG, MAX_OUT_TRIG}

BoundSamples ==
    {t + k : t \in Targets,
             k \in {-(NEAR + 1), -NEAR, -(NEAR - 1), -1, 0, 1, NEAR - 1, NEAR, NEAR + 1}}
    \cup {2, -2, 511, -512, 1023, -1024, 65535, -65536}
    \cup {MaxI32, MaxI32 - 32767, MaxI32 - 32768, MinI32, MinI32 + 1, MinI32 + 255,
          MinI32 + 32766, MinI32 + 32767}

Slots == 0..(TABLE_LEN - 1)

CalRanges(slot, side, b) ==
    [RangeCanonical EXCEPT ![side][slot + 1] = b]

CalDevices ==
    {Device(CapsPlain, CalRanges(slot, side, b), {}) :
        slot \in Slots, side \in {"absmin", "absmax"}, b \in BoundSamples}

InitCal ==
    /\ \E a \in CalDevices :
            dev = [d \in {"pad1", "synth"} |-> IF d = "pad1" THEN a ELSE SynthDevice]
    /\ left = 0
    /\ scans = 0
    /\ workers = << NewWorker("pad1"), NewWorker("synth") >>
    /\ InitCommon

NextCal ==
    \/ \E w \in 1..Len(workers) : Evaluate(w)
    \/ \E w \in 1..Len(workers) : Grab(w)
    \/ \E w \in 1..Len(workers) : Calibrate(w)

SpecCal == InitCal /\ [][NextCal]_vars

\* the life of the threads of one enumeration, until the next rescan
NextOne ==
    \/ \E w \in 1..Len(workers) : Evaluate(w)
    \/ \E w \in 1..Len(workers) : Grab(w)
    \/ \E w \in 1..Len(workers) : Calibrate(w)
    \/ \E w \in 1..Len(workers) : Fetch(w)
    \/ \E w \in 1..Len(workers) : ReadFail(w)
    \/ \E w \in 1..Len(workers) : Forward(w)
    \/ Emit
    \/ EmitFail

SpecOne == InitOne /\ [][NextOne]_vars

(***************************************************************************)
(* The hat pass-through on its own: a gamepad of any range profile that    *)
(* delivers hat events of any value, also far outside {-1, 0, 1}.          *)
(***************************************************************************)
HatSamples ==
    {MinI32, MIN_OUT_ANALOG, -2, MIN_OUT_HAT, 0, MAX_OUT_HAT, 2, MAX_OUT_TRIG,
     MAX_OUT_ANALOG, MaxI32}

HatDevices ==
    {Device(CapsPlain, r,
            {InputEvent(EV_ABS, a, v) : a \in {ABS_HAT0X, ABS_HAT0Y}, v \in HatSamples}) :
        r \in RangeProfiles}

InitHat ==
    /\ \E a \in HatDevices :
            dev = [d \in {"pad1", "synth"} |-> IF d = "pad1" THEN a ELSE SynthDevice]
    /\ left = MaxOneEvents
    /\ scans = 0
    /\ workers = << NewWorker("pad1"), NewWorker("synth") >>
    /\ InitCommon

SpecHat == InitHat /\ [][NextOne]_vars

(***************************************************************************)
(* The watcher as the endless loop it is.  A thread that has ended is      *)
(* gone: at the next enumeration its place in `workers` is taken by the    *)
(* thread spawned for the same device, so the threads stay finitely many.  *)
(* The watcher sleeps a second between enumerations; it is taken to rescan *)
(* only while fewer than MaxThreads threads would exist.                   *)
(***************************************************************************)
\* the states in which a thread has ended
Finished == {"Rejected", "AcquisitionFailed", "Terminated", "Panicked"}

\* the ended threads of device d
Gone(d) == {w \in 1..Len(workers) : workers[w].dev = d /\ workers[w].pc \in Finished}

\* the place the new thread of device d takes, 0 if it is a new one
PlaceOf(d) ==
    IF Gone(d) = {} THEN 0
    ELSE CHOOSE w \in Gone(d) : \A v \in Gone(d) : w <= v

\* a gamepad with a throttle axis, on which the streaming loop panics
PadT ==
    Device(CapsPlain, RangeThrottle,
           {InputEvent(EV_ABS, ABS_THROTTLE, 1), InputEvent(EV_KEY, BTN_SOUTH, 1)})

\* no arithmetic on this gamepad's ranges and samples overflows, so the two
\* builds behave alike; the runs are those of the build with overflow checks
InitLive ==
    /\ dev = [d \in {"pad1", "synth"} |-> IF d = "pad1" THEN PadT ELSE SynthDevice]
    /\ left = MaxOneEvents
    /\ scans = 0
    /\ workers = << >>
    /\ checks = TRUE
    /\ holder = [d \in DOMAIN dev |-> 0]
    /\ reads = [d \in DOMAIN dev |-> 0]
    /\ chan = << >>
    /\ sent = << >>
    /\ injected = << >>
    /\ emitted = NoMessage
    /\ mainpc = "running"

\* indev_watcher: one iteration of the endless loop
RescanLive ==
    /\ mainpc = "running"
    /\ LET fresh == SelectSeq(enumerate, LAMBDA d : PlaceOf(d) = 0)
           kept == [w \in 1..Len(workers) |->
                       IF PlaceOf(workers[w].dev) = w
                       THEN NewWorker(workers[w].dev) ELSE workers[w]]
       IN  /\ Len(workers) + Len(fresh) <= MaxThreads
           /\ workers' = kept \o [i \in 1..Len(fresh) |-> NewWorker(fresh[i])]
    /\ UNCHANGED << checks, dev, holder, reads, left, chan, sent, injected,
                    emitted, scans, mainpc >>

NextLive ==
    \/ RescanLive
    \/ \E w \in 1..Len(workers) : Evaluate(w)
    \/ \E w \in 1..Len(workers) : Grab(w)
    \/ \E w \in 1..Len(workers) : Calibrate(w)
    \/ \E w \in 1..Len(workers) : Fetch(w)
    \/ \E w \in 1..Len(workers) : ReadFail(w)
    \/ \E w \in 1..Len(workers) : Forward(w)
    \/ Emit
    \/ EmitFail

\* the scheduler runs every thread that can take a step: the watcher wakes
\* up again, and a worker gets through the filter, the grab and calibration
Fairness ==
    /\ WF_vars(RescanLive)
    /\ \A w \in 1..MaxThreads : WF_vars(Evaluate(w) \/ Grab(w) \/ Calibrate(w))

SpecLive == InitLive /\ [][NextLive]_vars /\ Fairness

(***************************************************************************)
(* Vocabulary of the properties.                                           *)
(***************************************************************************)
WorkerIds == 1..Len(workers)

DeviceOf(w) == dev[workers[w].dev]

\* the worker has been through the calibration step
PastCalibration(w) == workers[w].pc \in {"Streaming", "Terminated", "Panicked"}

\* the messages in flight and the one last injected
InFlight == {chan[i] : i \in 1..Len(chan)}
Delivered == IF emitted.some THEN {emitted} ELSE {}

StickCodes == {ABS_X, ABS_Y, ABS_RX, ABS_RY}
TriggerCodes == {ABS_Z, ABS_RZ}
HatCodes == {ABS_HAT0X, ABS_HAT0Y}

\* the range the synthetic device declares for an event
InContract(e) ==
    CASE e.type = EV_ABS /\ e.code \in StickCodes ->
            MIN_OUT_ANALOG <= e.value /\ e.value <= MAX_OUT_ANALOG
      [] e.type = EV_ABS /\ e.code \in TriggerCodes ->
            MIN_OUT_TRIG <= e.value /\ e.value <= MAX_OUT_TRIG
      [] e.type = EV_ABS /\ e.code \in HatCodes ->
            MIN_OUT_HAT <= e.value /\ e.value <= MAX_OUT_HAT
      [] e.type = EV_KEY -> e.value \in {0, 1}
      [] OTHER -> TRUE

\* the canonical target of an axis code on either side
TargetMin(code) == IF code \in TriggerCodes THEN MIN_OUT_TRIG ELSE MIN_OUT_ANALOG
TargetMax(code) == IF code \in TriggerCodes THEN MAX_OUT_TRIG ELSE MAX_OUT_ANALOG

\* b is within 100 units of target t
Within(b, t) == t - NEAR < b /\ b < t + NEAR

IsPrefix(p, q) == Len(p) <= Len(q) /\ SubSeq(q, 1, Len(p)) = p

(***************************************************************************)
(* C1: every event injected into the synthetic device is inside the range  *)
(* the device declares for its code: sticks in [-32768, 32767], triggers   *)
(* in [0, 255], hats in {-1, 0, 1}, buttons in {0, 1}.                     *)
(* Fails: a bound within 100 of the target gives multiplier 1, so a stick  *)
(* that reports a maximum of 32800 is forwarded up to 32800; an autorepeat *)
(* key value 2 is forwarded as 2, and as 510 by the rg351m trigger rows.   *)
(***************************************************************************)
C1_OutputContract == emitted.some => InContract(emitted.ev)

(***************************************************************************)
(* C2: a raw bound of 0 gives multiplier 1 and the worker goes on to       *)
(* Streaming.  Fails: only the minimum side of a trigger slot treats 0 as  *)
(* calibrated; everywhere else the worker divides by zero and panics.      *)
(***************************************************************************)
HasZeroBound(d) ==
    \E i \in 1..TABLE_LEN : abs_minimums(d)[i] = 0 \/ abs_maximums(d)[i] = 0

C2_ZeroBoundIsIdentity ==
    \A w \in WorkerIds :
        (PastCalibration(w) /\ HasZeroBound(DeviceOf(w))) =>
            /\ workers[w].fault # "div0"
            /\ workers[w].mmin # << >> =>
                 \A i \in 1..TABLE_LEN :
                    /\ abs_minimums(DeviceOf(w))[i] = 0 => workers[w].mmin[i] = 1
                    /\ abs_maximums(DeviceOf(w))[i] = 0 => workers[w].mmax[i] = 1

(***************************************************************************)
(* C3: at most one worker streams a device at any time.  Of the workers    *)
(* that try to grab a device one gets it and goes on to Streaming without  *)
(* crashing on the way; a worker whose grab was refused ends at Acquiring  *)
(* without a fault and never sends; a worker calibrates or streams only    *)
(* while it holds the grab; no raw event enters the channel twice.         *)
(* Fails on a gamepad with a zero bound: the worker that got the grab      *)
(* divides by zero in calibration and panics (see C2), its grab is         *)
(* released, and the next worker gets the grab and panics as well, so      *)
(* none of them reaches Streaming and each of them crashes.                *)
(***************************************************************************)
Streamers(d) == {w \in WorkerIds : workers[w].dev = d /\ workers[w].pc = "Streaming"}

\* the worker crashed between its grab and Streaming
CrashedBeforeStreaming(w) == workers[w].pc = "Panicked" /\ workers[w].mmin = << >>

C3_OneStreamer ==
    /\ \A d \in Devices : Cardinality(Streamers(d)) <= 1
    /\ \A w \in WorkerIds :
          workers[w].pc \in {"Calibrating", "Streaming"} => holder[workers[w].dev] = w
    /\ \A w \in WorkerIds : ~CrashedBeforeStreaming(w)
    /\ \A w \in WorkerIds :
          workers[w].pc = "AcquisitionFailed" =>
              /\ workers[w].fault = "none"
              /\ \A i \in 1..Len(sent) : sent[i].by # w
    /\ \A i, j \in 1..Len(sent) :
          (sent[i].dev = sent[j].dev /\ sent[i].n = sent[j].n) => i = j

(***************************************************************************)
(* C4: the consumer injects the messages in the order they entered the     *)
(* channel, one per emit call, none lost, doubled or reordered; and the    *)
(* events injected for one device are in the order they were read from it. *)
(***************************************************************************)
ChanTags == [i \in 1..Len(chan) |-> chan[i].tag]

C4_OrderPreserved ==
    /\ IsPrefix(injected, sent)
    /\ mainpc = "running" => sent = injected \o ChanTags
    /\ emitted.some => (injected # << >> /\ emitted.tag = injected[Len(injected)])
    /\ \A i, j \in 1..Len(injected) :
          (i < j /\ injected[i].dev = injected[j].dev) => injected[i].n < injected[j].n

\* two events read from one device have both been injected
C4_Witness ==
    /\ Len(injected) >= 2
    /\ \E i, j \in 1..Len(injected) : i < j /\ injected[i].dev = injected[j].dev

(***************************************************************************)
(* C5 as stated: the filter accepts a device exactly when it supports the  *)
(* south button, does not support the touch button, does not carry the     *)
(* version tag 0x2137 and its name does not start with the synthetic       *)
(* device's name followed by a space.  Fails for a device without a        *)
(* readable name, which the filter rejects.                                *)
(***************************************************************************)
Evaluated(w) == workers[w].pc # "Discovered"
Accepted(w) == workers[w].pc # "Rejected"

NameMatches(name) == name.some /\ starts_with(name.text, STEAM_PREFIX)

C5_FilterAsStated ==
    \A w \in WorkerIds :
        Evaluated(w) =>
            (Accepted(w) <=>
                /\ BTN_SOUTH \in DeviceOf(w).keys
                /\ BTN_TOUCH \notin DeviceOf(w).keys
                /\ DeviceOf(w).version # SYNTH_VERSION
                /\ ~NameMatches(DeviceOf(w).name))

(***************************************************************************)
(* C5 amended: the filter accepts a device exactly when it supports the    *)
(* south button, does not support the touch button, does not carry the     *)
(* version tag 0x2137, and has a readable name that does not start with    *)
(* the synthetic device's name followed by a space; the verdict touches    *)
(* neither a grab nor the channel.                                         *)
(***************************************************************************)
C5_Filter ==
    /\ \A w \in WorkerIds :
          Evaluated(w) =>
              (Accepted(w) <=>
                  /\ BTN_SOUTH \in DeviceOf(w).keys
                  /\ BTN_TOUCH \notin DeviceOf(w).keys
                  /\ DeviceOf(w).version # SYNTH_VERSION
                  /\ DeviceOf(w).name.some
                  /\ ~starts_with(DeviceOf(w).name.text, STEAM_PREFIX))
    /\ \A d \in Devices : holder[d] = 0 /\ reads[d] = 0
    /\ chan = << >> /\ sent = << >> /\ injected = << >> /\ ~emitted.some

\* a device with the south and the touch button, otherwise acceptable, was
\* rejected
C5_Witness ==
    \E w \in WorkerIds :
        /\ workers[w].pc = "Rejected"
        /\ {BTN_SOUTH, BTN_TOUCH} \subseteq DeviceOf(w).keys
        /\ DeviceOf(w).version # SYNTH_VERSION
        /\ DeviceOf(w).name = Name(GenericName)

(***************************************************************************)
(* C6: the synthetic device is rejected each time it is enumerated: no     *)
(* worker grabs or streams it, and nothing injected into it is read back   *)
(* into the channel.                                                       *)
(***************************************************************************)
C6_NoSelfFeedback ==
    /\ \A w \in WorkerIds :
          workers[w].dev = "synth" => workers[w].pc \in {"Discovered", "Rejected"}
    /\ holder["synth"] = 0
    /\ reads["synth"] = 0
    /\ \A i \in 1..Len(sent) : sent[i].dev # "synth"

\* the synthetic device was enumerated twice and rejected twice while events
\* were being injected into it
C6_Witness ==
    /\ emitted.some
    /\ \E v, w \in WorkerIds :
          /\ v # w
          /\ workers[v].dev = "synth" /\ workers[v].pc = "Rejected"
          /\ workers[w].dev = "synth" /\ workers[w].pc = "Rejected"

(***************************************************************************)
(* C7: in both tables, a raw bound within 100 units of the slot's target   *)
(* gives the multiplier 1 (and no fault).                                  *)
(***************************************************************************)
AllWithin(d) ==
    \A i \in 1..TABLE_LEN :
        /\ Within(abs_minimums(d)[i], TargetMin(i - 1))
        /\ Within(abs_maximums(d)[i], TargetMax(i - 1))

C7_NearIsOne ==
    \A w \in WorkerIds :
        PastCalibration(w) =>
            /\ AllWithin(DeviceOf(w)) => workers[w].pc # "Panicked"
            /\ workers[w].pc # "Panicked" =>
                 \A i \in 1..TABLE_LEN :
                    /\ Within(abs_minimums(DeviceOf(w))[i], TargetMin(i - 1))
                          => workers[w].mmin[i] = 1
                    /\ Within(abs_maximums(DeviceOf(w))[i], TargetMax(i - 1))
                          => workers[w].mmax[i] = 1

\* a trigger maximum of 354, 99 above the target, was calibrated to 1
C7_Witness ==
    \E w \in WorkerIds :
        /\ workers[w].pc = "Streaming"
        /\ DeviceOf(w).absmax[ABS_RZ + 1] = MAX_OUT_TRIG + NEAR - 1
        /\ workers[w].mmax[ABS_RZ + 1] = 1

(***************************************************************************)
(* C8: a raw bound b # 0 that is 100 or more away from the target gives    *)
(* the multiplier target / b (truncated), and b times the multiplier is no *)
(* larger in magnitude than the target.  Fails where the distance does not *)
(* fit an i32: a trigger minimum of -2147483648 makes abs() overflow, so   *)
(* the worker panics or, without overflow checks, uses the multiplier 1.   *)
(***************************************************************************)
\* |b * m| <= |t|, for t one of the targets
ProductWithin(b, m, t) ==
    /\ ~MulOverflows(b, m)
    /\ b * m <= Mag(t)
    /\ b * m >= -Mag(t)

QuotientOk(b, m, t) ==
    (b # 0 /\ ~Within(b, t)) => (m = TruncDiv(t, b) /\ ProductWithin(b, m, t))

Far(b, t) == b # 0 /\ ~Within(b, t)

C8_FarIsQuotient ==
    \A w \in WorkerIds :
        PastCalibration(w) =>
            \A i \in 1..TABLE_LEN :
                LET bmin == abs_minimums(DeviceOf(w))[i]
                    bmax == abs_maximums(DeviceOf(w))[i]
                IN  /\ (Far(bmin, TargetMin(i - 1)) \/ Far(bmax, TargetMax(i - 1)))
                          => workers[w].pc # "Panicked"
                    /\ workers[w].pc # "Panicked" =>
                          /\ QuotientOk(bmin, workers[w].mmin[i], TargetMin(i - 1))
                          /\ QuotientOk(bmax, workers[w].mmax[i], TargetMax(i - 1))

(***************************************************************************)
(* C9: scenario 1.  A gamepad that reports [0, 1023] on its sticks and     *)
(* [0, 255] on its triggers gets through calibration to Streaming, and a   *)
(* stick sample of 1023 is forwarded on the same axis as 1023 * (32767     *)
(* div 1023) = 32736.  Fails: the stick minimum 0 is 32768 away from its   *)
(* target, so the worker computes -32768 / 0 and panics (see C2).          *)
(***************************************************************************)
IsScenario1(d) ==
    /\ d.absok
    /\ d.absmin = RangeScenario1.absmin
    /\ d.absmax = RangeScenario1.absmax

C9_Scenario1 ==
    /\ \A w \in WorkerIds :
          (IsScenario1(DeviceOf(w)) /\ PastCalibration(w)) => workers[w].pc # "Panicked"
    /\ \A m \in InFlight \cup Delivered :
          (IsScenario1(dev[m.tag.dev]) /\ m.raw = InputEvent(EV_ABS, ABS_X, 1023)) =>
              m.ev = InputEvent(EV_ABS, ABS_X, 1023 * (MAX_OUT_ANALOG \div 1023))

(***************************************************************************)
(* C10 as stated: the (0x1209, 0x3100) device is bound to rg351m even if   *)
(* it has D-pad buttons, any other device with D-pad buttons to            *)
(* generic_dac, every other device to nothing.  Fails for a device whose   *)
(* D-pad buttons do not include BTN_DPAD_LEFT, which is bound to nothing.  *)
(***************************************************************************)
DpadKeys == {BTN_DPAD_UP, BTN_DPAD_DOWN, BTN_DPAD_LEFT, BTN_DPAD_RIGHT}

IsRg351m(d) == d.vendor = RG351M_VENDOR /\ d.product = RG351M_PRODUCT

\* the worker has resolved its quirk
QuirkBound(w) == workers[w].pc \in {"Streaming", "Terminated"}

C10_FirstRuleAsStated ==
    \A w \in WorkerIds :
        QuirkBound(w) =>
            workers[w].fn =
                IF IsRg351m(DeviceOf(w)) THEN "rg351m"
                ELSE IF DeviceOf(w).keys \cap DpadKeys # {} THEN "generic_dac"
                     ELSE "none"

(***************************************************************************)
(* C10 amended: the (0x1209, 0x3100) device is bound to rg351m even if it  *)
(* has D-pad buttons, any other device that supports BTN_DPAD_LEFT to      *)
(* generic_dac, every other device to nothing; and a BTN_SOUTH press read  *)
(* from the (0x1209, 0x3100) device is forwarded as one BTN_EAST press.    *)
(***************************************************************************)
C10_FirstRule ==
    /\ \A w \in WorkerIds :
          QuirkBound(w) =>
              workers[w].fn =
                  IF IsRg351m(DeviceOf(w)) THEN "rg351m"
                  ELSE IF BTN_DPAD_LEFT \in DeviceOf(w).keys THEN "generic_dac"
                       ELSE "none"
    /\ \A m \in InFlight \cup Delivered :
          (IsRg351m(dev[m.tag.dev]) /\ m.raw = InputEvent(EV_KEY, BTN_SOUTH, 1)) =>
              m.ev = InputEvent(EV_KEY, BTN_EAST, 1)
    /\ \A i, j \in 1..Len(sent) : sent[i] = sent[j] => i = j

\* a BTN_SOUTH press of the (0x1209, 0x3100) device, which also has
\* BTN_DPAD_LEFT, was injected as a BTN_EAST press
C10_Witness ==
    /\ emitted.some
    /\ IsRg351m(dev[emitted.tag.dev])
    /\ BTN_DPAD_LEFT \in dev[emitted.tag.dev].keys
    /\ emitted.raw = InputEvent(EV_KEY, BTN_SOUTH, 1)
    /\ emitted.ev = InputEvent(EV_KEY, BTN_EAST, 1)
    /\ Len(sent) = 1

(***************************************************************************)
(* Steps of the streaming loop, for the properties about single steps.     *)
(***************************************************************************)
\* this step is worker w's loop body on the next event of its batch
Handles(w) ==
    /\ workers[w].pc = "Streaming"
    /\ workers[w].batch # << >>
    /\ workers'[w] # workers[w]

\* the raw event the step is about
Handled(w) == Head(workers[w].batch).raw

\* the step put exactly one message on the channel, made from that raw event
SendsOne(w) ==
    /\ Len(chan') = Len(chan) + 1
    /\ SubSeq(chan', 1, Len(chan)) = chan
    /\ chan'[Len(chan')].tag = Head(workers[w].batch).tag
    /\ chan'[Len(chan')].raw = Handled(w)

\* the worker that sent message m
SenderOf(m) == workers[m.tag.by]

(***************************************************************************)
(* C11: rg351m is total on its twelve buttons: for each of them and every  *)
(* key value the worker bound to rg351m sends exactly one event, a key or  *)
(* an axis event that differs from the raw one, with the raw value on the  *)
(* key rows; and the EAST/SOUTH rows are an involution: rg351m applied to  *)
(* the forwarded event gives back the raw event.  Fails on the two trigger *)
(* rows: for a key value beyond i32::MAX / 255 the product value * 255     *)
(* overflows, and the build with overflow checks panics and sends nothing. *)
(***************************************************************************)
SwapKeys == {BTN_EAST, BTN_SOUTH}

C11_Rg351mTotal ==
    /\ [](\A m \in InFlight \cup Delivered :
            (SenderOf(m).fn = "rg351m" /\ m.raw.type = EV_KEY
                /\ m.raw.code \in Rg351mKeys) =>
                /\ m.ev.type \in {EV_KEY, EV_ABS}
                /\ << m.ev.type, m.ev.code >> # << m.raw.type, m.raw.code >>
                /\ m.ev.type = EV_KEY => m.ev.value = m.raw.value
                /\ m.raw.code \in SwapKeys =>
                      /\ m.ev.code \in SwapKeys
                      /\ rg351m(m.ev, checks) = Remapped(m.raw))
    /\ [][\A w \in WorkerIds :
            (Handles(w) /\ workers[w].fn = "rg351m" /\ Handled(w).type = EV_KEY
                /\ Handled(w).code \in Rg351mKeys) => SendsOne(w)]_vars

(***************************************************************************)
(* C12: a worker bound to generic_dac turns every D-pad button event into  *)
(* exactly one hat event: UP/DOWN on ABS_HAT0Y with -1/+1, LEFT/RIGHT on   *)
(* ABS_HAT0X with -1/+1 for any non-zero key value and 0 for value 0, no   *)
(* other magnitude; a left press gives one ABS_HAT0X event of value -1;    *)
(* and TL2/TR2 become one ABS_Z/ABS_RZ event, 0 on release, 255 otherwise. *)
(***************************************************************************)
SynthKeys == DpadKeys \cup {BTN_TL2, BTN_TR2}

\* the axis and the pressed value the claim gives for a synthesized button
HatOf(code) ==
    CASE code = BTN_DPAD_UP -> << ABS_HAT0Y, -1 >>
      [] code = BTN_DPAD_DOWN -> << ABS_HAT0Y, 1 >>
      [] code = BTN_DPAD_LEFT -> << ABS_HAT0X, -1 >>
      [] code = BTN_DPAD_RIGHT -> << ABS_HAT0X, 1 >>
      [] code = BTN_TL2 -> << ABS_Z, MAX_OUT_TRIG >>
      [] code = BTN_TR2 -> << ABS_RZ, MAX_OUT_TRIG >>

C12_GenericDac ==
    /\ [](\A m \in InFlight \cup Delivered :
            (SenderOf(m).fn = "generic_dac" /\ m.raw.type = EV_KEY
                /\ m.raw.code \in SynthKeys) =>
                /\ m.ev.type = EV_ABS
                /\ m.ev.code = HatOf(m.raw.code)[1]
                /\ m.ev.value = IF m.raw.value = 0 THEN 0 ELSE HatOf(m.raw.code)[2]
                /\ m.raw.code \in DpadKeys => m.ev.value \in {-1, 0, 1}
                /\ m.raw = InputEvent(EV_KEY, BTN_DPAD_LEFT, 1) =>
                      m.ev = InputEvent(EV_ABS, ABS_HAT0X, -1))
    /\ [][\A w \in WorkerIds :
            (Handles(w) /\ workers[w].fn = "generic_dac" /\ Handled(w).type = EV_KEY
                /\ Handled(w).code \in SynthKeys) => SendsOne(w)]_vars

\* an autorepeat of BTN_DPAD_LEFT was injected as ABS_HAT0X = -1
C12_Witness ==
    /\ emitted.some
    /\ SenderOf(emitted).fn = "generic_dac"
    /\ emitted.raw = InputEvent(EV_KEY, BTN_DPAD_LEFT, 2)
    /\ emitted.ev = InputEvent(EV_ABS, ABS_HAT0X, -1)

(***************************************************************************)
(* C13: an analog event on ABS_HAT0X or ABS_HAT0Y is forwarded with its    *)
(* raw value, whatever the two multiplier tables hold and whatever the raw *)
(* value is: the worker sends exactly one event, equal to the raw one, and *)
(* a worker that got through calibration never panics on a hat event.      *)
(***************************************************************************)
IsHat(ev) == ev.type = EV_ABS /\ ev.code \in HatCodes

C13_HatPassThrough ==
    /\ [](\A m \in InFlight \cup Delivered : IsHat(m.raw) => m.ev = m.raw)
    /\ [][\A w \in WorkerIds :
            (Handles(w) /\ IsHat(Handled(w))) =>
                (SendsOne(w) /\ workers'[w].pc = "Streaming")]_vars

\* the largest i32 on ABS_HAT0X went through a worker whose maximum-side
\* multiplier of every stick slot is 258
C13_Witness ==
    /\ emitted.some
    /\ emitted.raw = InputEvent(EV_ABS, ABS_HAT0X, MaxI32)
    /\ emitted.ev = emitted.raw
    /\ SenderOf(emitted).mmax[ABS_X + 1] = MAX_OUT_ANALOG \div 127

(***************************************************************************)
(* C14: only a failed injection stops the process.  A worker that ends,    *)
(* because its device was filtered out, its grab was refused, a read       *)
(* failed or it panicked, changes nothing but its own thread and its grab: *)
(* main keeps running and the channel, the watcher and the other workers   *)
(* are untouched; and while main runs, whatever workers have ended, the    *)
(* consumer can take the next message, the watcher can rescan and every    *)
(* streaming worker can go on reading and forwarding.                      *)
(***************************************************************************)
Ended == {"Rejected", "AcquisitionFailed", "Terminated", "Panicked"}

\* this step ends worker w
Ends(w) == workers[w].pc \notin Ended /\ workers'[w].pc \in Ended

C14_OnlyEmitIsFatal ==
    /\ [][mainpc' # mainpc =>
            /\ mainpc = "running" /\ mainpc' = "failed"
            /\ chan # << >> /\ chan' = recv(chan).rest
            /\ injected' = injected /\ workers' = workers]_vars
    /\ [][\A w \in WorkerIds :
            Ends(w) =>
                /\ mainpc' = mainpc
                /\ chan' = chan /\ sent' = sent /\ injected' = injected
                /\ scans' = scans
                /\ \A v \in WorkerIds \ {w} : workers'[v] = workers[v]
                /\ \A d \in Devices : holder[d] # w => holder'[d] = holder[d]]_vars
    /\ [](mainpc = "running" =>
            /\ chan # << >> => ENABLED Emit
            /\ scans > 0 => ENABLED Rescan
            /\ \A v \in WorkerIds :
                  workers[v].pc = "Streaming" =>
                      /\ workers[v].batch # << >> => ENABLED Forward(v)
                      /\ (workers[v].batch = << >> /\ left > 0) => ENABLED Fetch(v))

\* workers have ended for each of the three reasons while another worker
\* streams with an event to forward and the consumer has a message to take
C14_Witness ==
    /\ mainpc = "running"
    /\ chan # << >>
    /\ \E w \in WorkerIds : workers[w].pc = "Rejected"
    /\ \E w \in WorkerIds : workers[w].pc = "AcquisitionFailed"
    /\ \E w \in WorkerIds : workers[w].pc = "Terminated"
    /\ \E v \in WorkerIds : workers[v].pc = "Streaming" /\ workers[v].batch # << >>

(***************************************************************************)
(* The target a slot is calibrated against shows in what calibration       *)
(* yields: the multiplier of a slot is the one computed from its bound and *)
(* that target, and the worker panics exactly when one of them faults.     *)
(***************************************************************************)
\* the targets of slot i when the trigger slots are `trig`
SlotTargetMin(i, trig) == IF i \in trig THEN MIN_OUT_TRIG ELSE MIN_OUT_ANALOG
SlotTargetMax(i, trig) == IF i \in trig THEN MAX_OUT_TRIG ELSE MAX_OUT_ANALOG

CalibratedAgainst(w, trig) ==
    LET d == DeviceOf(w)
        tmin == [i \in 1..TABLE_LEN |->
                    multiplier(SlotTargetMin(i - 1, trig), abs_minimums(d)[i], checks)]
        tmax == [i \in 1..TABLE_LEN |->
                    multiplier(SlotTargetMax(i - 1, trig), abs_maximums(d)[i], checks)]
    IN  IF workers[w].mmin = << >>
        THEN /\ workers[w].pc = "Panicked"
             /\ \E i \in 1..TABLE_LEN : tmin[i].fault # "none" \/ tmax[i].fault # "none"
        ELSE \A i \in 1..TABLE_LEN :
                /\ tmin[i] = Value(workers[w].mmin[i])
                /\ tmax[i] = Value(workers[w].mmax[i])

(***************************************************************************)
(* C15 as stated: slots 0 to 3 are calibrated against the stick target and *)
(* slots 4 and 5 against the trigger target.  Fails: the tables are        *)
(* indexed by axis code and the trigger axes are ABS_Z = 2 and ABS_RZ = 5, *)
(* so slot 2 has the trigger target and slot 4 (ABS_RY) the stick target.  *)
(***************************************************************************)
C15_SlotsAsStated ==
    \A w \in WorkerIds : PastCalibration(w) => CalibratedAgainst(w, {4, 5})

(***************************************************************************)
(* C15 amended: slots 0, 1, 3 and 4 (ABS_X, ABS_Y, ABS_RX, ABS_RY) are     *)
(* calibrated against the stick target [-32768, 32767] and slots 2 and 5   *)
(* (ABS_Z, ABS_RZ) against the trigger target [0, 255].                    *)
(***************************************************************************)
C15_Slots ==
    \A w \in WorkerIds : PastCalibration(w) => CalibratedAgainst(w, {2, 5})

\* a maximum of 255 was calibrated to 1 on slot 2 and to 128 on slot 4
C15_Witness ==
    \E v, w \in WorkerIds :
        /\ workers[v].pc = "Streaming" /\ workers[w].pc = "Streaming"
        /\ DeviceOf(v).absmax[2 + 1] = MAX_OUT_TRIG
        /\ workers[v].mmax[2 + 1] = 1
        /\ DeviceOf(w).absmax[4 + 1] = MAX_OUT_TRIG
        /\ workers[w].mmax[4 + 1] = MAX_OUT_ANALOG \div MAX_OUT_TRIG

(***************************************************************************)
(* C16: a streaming worker sends exactly one event for each analog or key  *)
(* raw event it reads and none for an event of another kind; a key event   *)
(* goes out unchanged when no quirk is bound or the bound quirk has no row *)
(* for its code.  Fails for an analog event whose code is outside the      *)
(* tables and not a hat axis (ABS_THROTTLE = 6): the worker panics on the  *)
(* table index and sends nothing (see C19); and for a key event of the     *)
(* rg351m trigger rows whose product overflows (see C11).                  *)
(***************************************************************************)
\* the key codes the quirk fn has a row for
QuirkKeys(fn) ==
    CASE fn = "rg351m" -> Rg351mKeys
      [] fn = "generic_dac" -> SynthKeys
      [] OTHER -> {}

C16_OnePerEvent ==
    [][\A w \in WorkerIds :
        Handles(w) =>
            IF Handled(w).type \in {EV_ABS, EV_KEY}
            THEN /\ SendsOne(w)
                 /\ (Handled(w).type = EV_KEY
                        /\ Handled(w).code \notin QuirkKeys(workers[w].fn)) =>
                       chan'[Len(chan')].ev = Handled(w)
            ELSE chan' = chan /\ sent' = sent]_vars

(***************************************************************************)
(* C17: a worker goes through Discovered, the filter's verdict, Acquiring, *)
(* Calibrating, Streaming in this order.  It tries to grab only a device   *)
(* the filter accepted, it has multiplier tables and a quirk only after    *)
(* its grab succeeded, and it sends only while Streaming.  So a device the *)
(* filter rejects (touchscreen, keyboard, the synthetic device) is never   *)
(* grabbed, never read and never the source of a message.                  *)
(***************************************************************************)
\* the devices the filter rejects
Unsuitable(d) ==
    \/ BTN_SOUTH \notin d.keys
    \/ BTN_TOUCH \in d.keys
    \/ d.version = SYNTH_VERSION
    \/ ~d.name.some
    \/ starts_with(d.name.text, STEAM_PREFIX)

\* the steps a worker can take
WorkerSteps ==
    {<< "Discovered", "Rejected" >>, << "Discovered", "Acquiring" >>,
     << "Acquiring", "AcquisitionFailed" >>, << "Acquiring", "Calibrating" >>,
     << "Calibrating", "Streaming" >>, << "Calibrating", "Panicked" >>,
     << "Streaming", "Terminated" >>, << "Streaming", "Panicked" >>}

C17_StateOrder ==
    /\ [](\A w \in WorkerIds :
            /\ workers[w].pc \notin {"Discovered", "Rejected"} => ~Unsuitable(DeviceOf(w))
            /\ workers[w].pc \in {"Discovered", "Rejected", "Acquiring",
                                  "AcquisitionFailed", "Calibrating"} =>
                  /\ workers[w].mmin = << >> /\ workers[w].mmax = << >>
                  /\ workers[w].fn = "none"
                  /\ workers[w].batch = << >>
                  /\ \A i \in 1..Len(sent) : sent[i].by # w
            /\ workers[w].pc = "Streaming" =>
                  Len(workers[w].mmin) = TABLE_LEN /\ Len(workers[w].mmax) = TABLE_LEN)
    /\ [](\A d \in Devices :
            /\ holder[d] # 0 =>
                  /\ workers[holder[d]].dev = d
                  /\ workers[holder[d]].pc \in {"Calibrating", "Streaming"}
            /\ Unsuitable(dev[d]) =>
                  /\ holder[d] = 0
                  /\ reads[d] = 0
                  /\ \A i \in 1..Len(sent) : sent[i].dev # d)
    /\ [][\A w \in WorkerIds :
            /\ workers'[w].pc # workers[w].pc =>
                  << workers[w].pc, workers'[w].pc >> \in WorkerSteps
            /\ (\E d \in Devices : holder[d] # w /\ holder'[d] = w) =>
                  workers[w].pc = "Acquiring"
            /\ (\E i \in 1..Len(sent') : i > Len(sent) /\ sent'[i].by = w) =>
                  workers[w].pc = "Streaming"]_vars

\* a touchscreen with a south button was enumerated twice and rejected
\* twice, while a gamepad next to it was grabbed and its event injected
C17_Witness ==
    /\ emitted.some
    /\ \E v, w \in WorkerIds :
          /\ v # w
          /\ workers[v].dev = workers[w].dev
          /\ {BTN_SOUTH, BTN_TOUCH} \subseteq DeviceOf(v).keys
          /\ workers[v].pc = "Rejected" /\ workers[w].pc = "Rejected"
    /\ \E s \in WorkerIds : workers[s].pc = "Streaming" /\ holder[workers[s].dev] = s

(***************************************************************************)
(* C18: a worker that leaves Streaming, on a read failure or a panic,      *)
(* gives up its grab; and while the process runs, a suitable device that   *)
(* nobody holds is eventually grabbed and streamed by some worker, given   *)
(* that the watcher keeps waking up and the workers keep being scheduled.  *)
(***************************************************************************)
C18_Reacquired ==
    /\ [][\A w \in WorkerIds :
            (workers[w].pc = "Streaming" /\ workers'[w].pc # "Streaming") =>
                /\ holder[workers[w].dev] = w
                /\ holder'[workers[w].dev] = 0]_vars
    /\ (mainpc = "running" /\ ~Unsuitable(dev["pad1"]) /\ holder["pad1"] = 0)
          ~> (Streamers("pad1") # {} \/ mainpc = "failed")

\* a worker of the gamepad has ended after streaming it, and a worker
\* spawned by a later enumeration holds and streams the gamepad
C18_Witness ==
    \E v, w \in WorkerIds :
        /\ workers[v].dev = "pad1" /\ workers[w].dev = "pad1"
        /\ workers[v].pc \in {"Terminated", "Panicked"}
        /\ workers[w].pc = "Streaming"
        /\ holder["pad1"] = w
        /\ mainpc = "running"

(***************************************************************************)
(* C19: a streaming worker never ends abnormally because of the axis code  *)
(* of an analog event: whatever code the device reports, the event is      *)
(* passed through or scaled with a multiplier found inside the two tables. *)
(* Fails: a code of 6 or more that is not a hat axis (ABS_THROTTLE) is     *)
(* used as an index into the 6-entry tables and the worker panics.         *)
(***************************************************************************)
C19_NoIndexPanic ==
    \A w \in WorkerIds : workers[w].fault # "index"

(***************************************************************************)
(* C20: calibration never flattens a stick axis: on a stick slot a raw     *)
(* bound other than 0 gives a multiplier other than 0, and a non-zero      *)
(* sample of a stick axis is never forwarded as 0.  Fails for a bound      *)
(* larger in magnitude than the target: 32767 / 65535 = 0, so every        *)
(* sample of that side is forwarded as 0.                                  *)
(***************************************************************************)
C20_NoFlattening ==
    /\ \A w \in WorkerIds :
          workers[w].mmin # << >> =>
              \A c \in StickCodes :
                  /\ abs_minimums(DeviceOf(w))[c + 1] # 0 => workers[w].mmin[c + 1] # 0
                  /\ abs_maximums(DeviceOf(w))[c + 1] # 0 => workers[w].mmax[c + 1] # 0
    /\ \A m \in InFlight \cup Delivered :
          (m.raw.type = EV_ABS /\ m.raw.code \in StickCodes /\ m.raw.value # 0) =>
              m.ev.value # 0

=============================================================================
